---------------------------- MODULE Spec2Model ----------------------------
(***************************************************************************)
(* GhostTrainer (ml-agents/mlagents/trainers/ghost/trainer.py): the        *)
(* self-play controller that wraps one trainer, relays its queues, keeps a *)
(* ring of policy snapshots with Elo ratings and swaps ghost opponents.    *)
(*                                                                         *)
(* Representation.                                                         *)
(*  - A behaviour identity is a string of Names.  A queue object is named  *)
(*    by the behaviour identity it was built for (q.behavior_id); a policy *)
(*    object is named by the identity it was registered under.             *)
(*  - A weight bundle is a natural number; get_weights copies the number.  *)
(*  - Ratings are Python floats in the source; here they are fixed-point   *)
(*    integers, EloScale units per rating point.                           *)
(*  - current_prob and the uniform draw are in hundredths.                 *)
(*  - The callers run on one thread, so advance() is one action.  What a   *)
(*    call handed to its collaborators is kept until the next call:        *)
(*    last_processed (the trajectories it relayed and rated) and           *)
(*    ext_policy (the policies it put on the external policy queues).      *)
(*  - Telemetry (_maybe_write_summary) and the next_update_step mirror     *)
(*    write nothing any other statement of the class reads.                *)
(***************************************************************************)
EXTENDS Integers, Sequences, FiniteSets, TLC

\* ------------------------------------------------------------- bounds
MaxWindow == 2        \* the small configurations use window in 1..MaxWindow
MaxEvents == 2        \* inputs of a run: the trajectories the environment
                      \* enqueues and the advance calls in which the wrapped
                      \* trainer counts steps or updates its policy

\* --------------------------------------------------------- input sets
Names == {"A", "B", "C"}
None == "None"                      \* no behaviour identity
NoWeights == 0                       \* None where a weight bundle goes
Rewards == {-1, 0, 1}
Draws == {0, 79, 80, 99}            \* np.random.uniform(), in hundredths

\* Parameters out of range, which __init__ (lines 52-54) stores as they come:
\* a current_prob above 1 or below 0, a snapshot_per of 0.
BadConfigs ==
    {[window |-> 1, current_prob |-> 150, snapshot_per |-> 1],
     [window |-> 1, current_prob |-> -50, snapshot_per |-> 1],
     [window |-> 2, current_prob |-> 0, snapshot_per |-> 0]}

\* The configuration of the spec's scenario and the small configurations.
Configs ==
    {[window |-> 5, current_prob |-> 20, snapshot_per |-> 100]}
    \cup [window : 1..MaxWindow, current_prob : {0}, snapshot_per : {1}]
    \cup {[window |-> 1, current_prob |-> 100, snapshot_per |-> 1]}

\* A policy built by create_policy starts from its own weights.
NewPolicyWeights(name) ==
    CASE name = "A" -> 1 [] name = "B" -> 2 [] OTHER -> 3

\* What the environment enqueues: an episode that ended, one cut by the step
\* limit (which also marks it done), or a fragment of one still running.
Trajectories ==
    {t \in [done_reached : BOOLEAN, max_step_reached : BOOLEAN, reward : Rewards] :
        t.max_step_reached => t.done_reached}

Min(a, b) == IF a < b THEN a ELSE b

VARIABLES
    identities,               \* the behaviour identities the environment brings up
    window, current_prob, steps_between_snapshots,   \* trainer_parameters["ghost"]
    policies,                 \* name -> weights of the policy object, or NoWeights
    policy_snapshots,         \* 0..window-1 -> weights or NoWeights
    snapshot_counter,
    learning_behavior_name,
    current_policy_snapshot,
    last_step,
    current_elo,
    policy_elos,              \* 0..window-1 -> rating
    current_opponent,
    policy_queues,            \* Trainer.policy_queues: external queues, in order
    internal_policy_queues,   \* sequence of [behavior_id, items]
    trajectory_queues,        \* Trainer.trajectory_queues: external queues, in order
    internal_trajectory_queues, \* sequence of [behavior_id, items]
    ext_policy,               \* name -> what the last advance put on that policy queue
    ext_traj,                 \* name -> the external trajectory queue of that identity
    enqueued,                 \* how many trajectories the environment has enqueued
    subscribed,               \* queues handed to subscribe_trajectory_queue
    trainer_step,             \* wrapped trainer: get_step
    trainer_added,            \* wrapped trainer: the add_policy calls it received
    updates,                  \* wrapped trainer: weight updates so far
    progressed,               \* advance calls in which the wrapped trainer moved
    ingested,                 \* wrapped trainer: the trajectories its last advance took
    inserted,                 \* the bundles save_snapshot wrote, in order
    last_processed            \* the trajectories the last advance relayed and rated

vars == <<identities, window, current_prob, steps_between_snapshots, policies,
          policy_snapshots, snapshot_counter, learning_behavior_name,
          current_policy_snapshot, last_step, current_elo, policy_elos,
          current_opponent, policy_queues, internal_policy_queues,
          trajectory_queues, internal_trajectory_queues, ext_policy, ext_traj,
          enqueued, subscribed, trainer_step, trainer_added, updates, progressed,
          inserted, last_processed,
          ingested>>

ghostVars == <<policy_snapshots, snapshot_counter, learning_behavior_name,
               current_policy_snapshot, last_step, current_elo, policy_elos,
               current_opponent>>
configVars == <<identities, window, current_prob, steps_between_snapshots>>
queueVars == <<policy_queues, internal_policy_queues, trajectory_queues,
               internal_trajectory_queues, ext_policy, ext_traj, enqueued,
               subscribed>>
trainerVars == <<trainer_step, trainer_added, updates, progressed, ingested>>

\* ------------------------------------------------------------ ratings
EloScale == 100                       \* fixed-point units per rating point
initial_elo == 1200 * EloScale
K == 1

PowScale == 10000                     \* fixed-point units of pow's result
Ln10 == 23026                         \* ln(10) in PowScale units
ExpTerms == 16                        \* terms of the series for exp

RECURSIVE TenTo(_)
TenTo(q) == IF q = 0 THEN 1 ELSE 10 * TenTo(q - 1)

RECURSIVE ExpSeries(_, _, _)
\* sum of the terms n.. of exp(y), `term` being term n-1; y in PowScale units
ExpSeries(y, term, n) ==
    IF n > ExpTerms \/ term = 0 THEN 0
    ELSE LET next == (term * y) \div (n * PowScale)
         IN  next + ExpSeries(y, next, n + 1)

\* pow(10, rating / 400), in PowScale units
Pow10(rating) ==
    LET unit == 400 * EloScale
        q == rating \div unit
        y == ((rating % unit) * Ln10) \div unit
    IN  TenTo(q) * (PowScale + ExpSeries(y, PowScale, 1))

compute_elo_rating_changes(rating1, rating2, result) ==
    LET r1 == Pow10(rating1)
        r2 == Pow10(rating2)
        summed == r1 + r2
        e1 == r1 \div (summed \div EloScale)
        s1 == IF result = "win" THEN EloScale ELSE 0
    IN  K * (s1 - e1)

\* _process_trajectory, but the opponent's rating is left alone
process_trajectory_one_sided(trajectory, elo, elos, opponent) ==
    IF /\ trajectory.done_reached
       /\ ~trajectory.max_step_reached
       /\ opponent > -1
    THEN LET result == IF trajectory.reward < 0 THEN "loss" ELSE "win"
             change == compute_elo_rating_changes(elo, elos[opponent], result)
         IN  [current_elo |-> elo + change, policy_elos |-> elos]
    ELSE [current_elo |-> elo, policy_elos |-> elos]

\* _process_trajectory, but the step-limit test is missing
process_trajectory_truncated_too(trajectory, elo, elos, opponent) ==
    IF /\ trajectory.done_reached
       /\ opponent > -1
    THEN LET result == IF trajectory.reward < 0 THEN "loss" ELSE "win"
             change == compute_elo_rating_changes(elo, elos[opponent], result)
         IN  [current_elo |-> elo + change,
              policy_elos |-> [elos EXCEPT ![opponent] = @ - change]]
    ELSE [current_elo |-> elo, policy_elos |-> elos]

\* _process_trajectory, but a final reward of 0 counts as a loss
process_trajectory_zero_loses(trajectory, elo, elos, opponent) ==
    IF /\ trajectory.done_reached
       /\ ~trajectory.max_step_reached
       /\ opponent > -1
    THEN LET result == IF trajectory.reward <= 0 THEN "loss" ELSE "win"
             change == compute_elo_rating_changes(elo, elos[opponent], result)
         IN  [current_elo |-> elo + change,
              policy_elos |-> [elos EXCEPT ![opponent] = @ - change]]
    ELSE [current_elo |-> elo, policy_elos |-> elos]

\* _process_trajectory: the ratings it leaves, from the ratings it finds
process_trajectory(trajectory, elo, elos, opponent) ==
    IF /\ trajectory.done_reached
       /\ ~trajectory.max_step_reached
       /\ opponent > -1
    THEN LET result == IF trajectory.reward < 0 THEN "loss" ELSE "win"
             change == compute_elo_rating_changes(elo, elos[opponent], result)
         IN  [current_elo |-> elo + change,
              policy_elos |-> [elos EXCEPT ![opponent] = @ - change]]
    ELSE [current_elo |-> elo, policy_elos |-> elos]

\* save_snapshot, but the cursor does not wrap
save_snapshot_no_wrap(weights, snapshots, elos, counter, elo, win) ==
    [policy_snapshots |-> [snapshots EXCEPT ![counter] = weights],
     policy_elos |-> [elos EXCEPT ![counter] = elo],
     snapshot_counter |-> counter + 1]

\* save_snapshot, but the slot's rating is not refreshed
save_snapshot_stale_rating(weights, snapshots, elos, counter, elo, win) ==
    [policy_snapshots |-> [snapshots EXCEPT ![counter] = weights],
     policy_elos |-> elos,
     snapshot_counter |-> (counter + 1) % win]

\* save_snapshot: the ring after writing the weights of `policy`
save_snapshot(weights, snapshots, elos, counter, elo, win) ==
    [policy_snapshots |-> [snapshots EXCEPT ![counter] = weights],
     policy_elos |-> [elos EXCEPT ![counter] = elo],
     snapshot_counter |-> (counter + 1) % win]

\* the cadence test with >= for >
SnapshotDue_at_cadence(step, last, between) == step - last >= between

\* advance, line 142: is a snapshot due?
SnapshotDue(step, last, between) == step - last > between

\* the draw compared with <= for <
FieldsPoolSnapshot_at_most(u, prob) == u <= 100 - prob

\* swap_snapshots, line 192: does this draw field a pool snapshot?
FieldsPoolSnapshot(u, prob) == u < 100 - prob

\* swap_snapshots without the test that skips the learning identity, which
\* is then handed the live snapshot like a ghost
RECURSIVE swap_snapshots_learning_too(_, _, _, _, _, _, _)
swap_snapshots_learning_too(k, queues, learning, snapshots, live, prob, arg) ==
    LET st == arg.st
        draws == arg.draws
    IN
    IF k > Len(queues) THEN st
    ELSE LET name_behavior_id == queues[k]
             ghost == name_behavior_id # learning
             u == IF ghost THEN draws[k][1] ELSE 99
             pool == ghost /\ FieldsPoolSnapshot(u, prob)
             x == IF pool THEN draws[k][2] ELSE -1
             snapshot == IF pool THEN snapshots[x] ELSE live
         IN  swap_snapshots_learning_too(k + 1, queues, learning, snapshots,
                live, prob,
                [st |-> [policies |-> [st.policies EXCEPT
                                         ![name_behavior_id] = snapshot],
                          ext_policy |-> [st.ext_policy EXCEPT
                              ![name_behavior_id] = Append(@,
                                  [policy |-> name_behavior_id,
                                   by |-> "swap_snapshots",
                                   u |-> u, x |-> x])],
                          current_opponent |-> x],
                 draws |-> draws])

\* swap_snapshots, but current_opponent keeps the tag of the first ghost of
\* the pass
RECURSIVE swap_snapshots_first_tag(_, _, _, _, _, _, _)
swap_snapshots_first_tag(k, queues, learning, snapshots, live, prob, arg) ==
    LET st == arg.st
        draws == arg.draws
    IN
    IF k > Len(queues) THEN st
    ELSE LET name_behavior_id == queues[k] IN
         IF name_behavior_id = learning
         THEN swap_snapshots_first_tag(k + 1, queues, learning, snapshots, live,
                                       prob, arg)
         ELSE LET pool == FieldsPoolSnapshot(draws[k][1], prob)
                  x == IF pool THEN draws[k][2] ELSE -1
                  snapshot == IF pool THEN snapshots[x] ELSE live
                  first == \A j \in 1..(k - 1) : queues[j] = learning
              IN  swap_snapshots_first_tag(k + 1, queues, learning, snapshots,
                     live, prob,
                     [st |-> [policies |-> [st.policies EXCEPT
                                              ![name_behavior_id] = snapshot],
                               ext_policy |-> [st.ext_policy EXCEPT
                                   ![name_behavior_id] = Append(@,
                                       [policy |-> name_behavior_id,
                                        by |-> "swap_snapshots",
                                        u |-> draws[k][1], x |-> x])],
                               current_opponent |->
                                   IF first THEN x ELSE st.current_opponent],
                      draws |-> draws])

\* swap_snapshots: the loop over policy_queues from position k on.  arg.st
\* holds policies, ext_policy and current_opponent; arg.draws[k] is the pair
\* of random numbers (uniform, randint) position k consumes.  What is put on
\* a queue is tagged with the draw u and with x, the snapshot the pass
\* reports for it (line 199): a slot of the pool, or -1 for "current".
RECURSIVE swap_snapshots(_, _, _, _, _, _, _)
swap_snapshots(k, queues, learning, snapshots, live, prob, arg) ==
    LET st == arg.st
        draws == arg.draws
    IN
    IF k > Len(queues) THEN st
    ELSE LET name_behavior_id == queues[k] IN
         IF name_behavior_id = learning
         THEN swap_snapshots(k + 1, queues, learning, snapshots, live, prob, arg)
         ELSE LET pool == FieldsPoolSnapshot(draws[k][1], prob)
                  x == IF pool THEN draws[k][2] ELSE -1
                  snapshot == IF pool THEN snapshots[x] ELSE live
              IN  swap_snapshots(k + 1, queues, learning, snapshots, live, prob,
                     [st |-> [policies |-> [st.policies EXCEPT
                                              ![name_behavior_id] = snapshot],
                               ext_policy |-> [st.ext_policy EXCEPT
                                   ![name_behavior_id] = Append(@,
                                       [policy |-> name_behavior_id,
                                        by |-> "swap_snapshots",
                                        u |-> draws[k][1], x |-> x])],
                               current_opponent |-> x],
                      draws |-> draws])

\* the identity test always passing
IsLearningQueue_any(behavior_id, learning) == TRUE

\* publish_policy_queue, line 217 / subscribe_trajectory_queue, line 229
IsLearningQueue(behavior_id, learning) == behavior_id = learning

\* every policy taken for the first
FirstPolicy_every(learning) == TRUE

\* add_policy, line 167: "First policy encountered"
FirstPolicy(learning) == learning = None

\* advance, lines 116-125: the loop over
\* the relay loop reading the (empty) internal queues instead of the
\* external ones: it finds nothing to relay
relay_trajectories_none(k, queues, opponent, st) == st

\* the relay loop taking the newest trajectory of a queue, not the oldest
RECURSIVE relay_trajectories_newest(_, _, _, _)
relay_trajectories_newest(k, queues, opponent, st) ==
    IF k > Min(Len(queues), Len(st.internal_trajectory_queues)) THEN st
    ELSE LET traj_queue == queues[k] IN
         IF st.ext_traj[traj_queue] = <<>>
         THEN relay_trajectories_newest(k + 1, queues, opponent, st)
         ELSE LET waiting == st.ext_traj[traj_queue]
                  t == waiting[Len(waiting)]
                  after == process_trajectory(t, st.current_elo, st.policy_elos,
                                              opponent)
              IN  relay_trajectories_newest(k + 1, queues, opponent,
                     [ext_traj |-> [st.ext_traj EXCEPT ![traj_queue] =
                                       SubSeq(waiting, 1, Len(waiting) - 1)],
                      internal_trajectory_queues |->
                          [st.internal_trajectory_queues EXCEPT
                              ![k].items = Append(@, t)],
                      current_elo |-> after.current_elo,
                      policy_elos |-> after.policy_elos,
                      last_processed |-> Append(st.last_processed,
                          [trajectory |-> t,
                           queue |-> traj_queue,
                           internal |-> st.internal_trajectory_queues[k].behavior_id,
                           opponent |-> opponent,
                           before |-> [current_elo |-> st.current_elo,
                                       policy_elos |-> st.policy_elos],
                           after |-> after])])

\* zip(trajectory_queues, internal_trajectory_queues) from pair k on.  st holds
\* ext_traj, internal_trajectory_queues, current_elo, policy_elos and
\* last_processed.
RECURSIVE relay_trajectories(_, _, _, _)
relay_trajectories(k, queues, opponent, st) ==
    IF k > Min(Len(queues), Len(st.internal_trajectory_queues)) THEN st
    ELSE LET traj_queue == queues[k] IN
         IF st.ext_traj[traj_queue] = <<>>
         THEN \* AgentManagerQueue.Empty
              relay_trajectories(k + 1, queues, opponent, st)
         ELSE LET t == Head(st.ext_traj[traj_queue])
                  after == process_trajectory(t, st.current_elo, st.policy_elos,
                                              opponent)
              IN  relay_trajectories(k + 1, queues, opponent,
                     [ext_traj |-> [st.ext_traj EXCEPT ![traj_queue] = Tail(@)],
                      internal_trajectory_queues |->
                          [st.internal_trajectory_queues EXCEPT
                              ![k].items = Append(@, t)],
                      current_elo |-> after.current_elo,
                      policy_elos |-> after.policy_elos,
                      last_processed |-> Append(st.last_processed,
                          [trajectory |-> t,
                           queue |-> traj_queue,
                           internal |-> st.internal_trajectory_queues[k].behavior_id,
                           opponent |-> opponent,
                           before |-> [current_elo |-> st.current_elo,
                                       policy_elos |-> st.policy_elos],
                           after |-> after])])

\* advance, lines 131-140: the loop over
\* zip(policy_queues, internal_policy_queues) from pair k on.  st holds
\* internal_policy_queues, current_policy_snapshot and ext_policy; weights is
\* name -> the weights of that policy object.
RECURSIVE relay_policies(_, _, _, _)
relay_policies(k, queues, weights, st) ==
    IF k > Min(Len(queues), Len(st.internal_policy_queues)) THEN st
    ELSE LET q == queues[k]
             internal_q == st.internal_policy_queues[k]
         IN  IF internal_q.items = <<>>
             THEN \* AgentManagerQueue.Empty
                  relay_policies(k + 1, queues, weights, st)
             ELSE LET policy == Head(internal_q.items) IN
                  relay_policies(k + 1, queues, weights,
                     [internal_policy_queues |->
                          [st.internal_policy_queues EXCEPT ![k].items = Tail(@)],
                      current_policy_snapshot |-> weights[policy],
                      ext_policy |-> [st.ext_policy EXCEPT ![q] =
                          Append(@, [policy |-> policy, by |-> "advance"])]])

\* save_snapshot handed the captured snapshot instead
SnapshotSource_captured(weights, trainer_pol, live) == live

\* advance, line 143: the weights save_snapshot is handed, those of
\* self.trainer.policy
SnapshotSource(weights, trainer_pol, live) == weights[trainer_pol]

\* ------------------------------------------------------- construction
\* __init__, lines 43-66
InitWith(ids, cfgs) ==
    /\ identities = ids
    /\ \E cfg \in cfgs :
          /\ window = cfg.window
          /\ current_prob = cfg.current_prob
          /\ steps_between_snapshots = cfg.snapshot_per
    /\ policies = [n \in Names |-> NoWeights]
    /\ policy_snapshots = [k \in 0..window-1 |-> NoWeights]
    /\ snapshot_counter = 0
    /\ learning_behavior_name = None
    /\ current_policy_snapshot = NoWeights
    /\ last_step = 0
    /\ current_elo = initial_elo
    /\ policy_elos = [k \in 0..window-1 |-> initial_elo]
    /\ current_opponent = 0
    /\ policy_queues = <<>>
    /\ internal_policy_queues = <<>>
    /\ trajectory_queues = <<>>
    /\ internal_trajectory_queues = <<>>
    /\ ext_policy = [n \in Names |-> <<>>]
    /\ ext_traj = [n \in Names |-> <<>>]
    /\ enqueued = 0
    /\ subscribed = {}
    /\ trainer_step = 0
    /\ trainer_added = <<>>
    /\ updates = 0
    /\ progressed = 0
    /\ ingested = {}
    /\ inserted = <<>>
    /\ last_processed = <<>>

Init == InitWith({"A", "B"}, Configs)

\* inputs the run has seen
Events == enqueued + progressed

\* the wrapped trainer's policy (trainer.policy): the last one it was given
trainer_policy ==
    IF trainer_added = <<>> THEN None ELSE trainer_added[Len(trainer_added)]

InQueue(seq, x) == \E k \in 1..Len(seq) : seq[k] = x

\* ----------------------------------------------------------- add_policy
\* lines 159-174.  The caller registers each identity once; identities
\* differ in nothing but their names, so they are registered in the order of
\* their names.
Earlier(name) ==
    CASE name = "A" -> {} [] name = "B" -> {"A"} [] OTHER -> {"A", "B"}

\* the bootstrap filling the first slot only
bootstrap_first_slot(weights, snapshots, win) == [snapshots EXCEPT ![0] = weights]

\* add_policy, lines 171-172: every slot of the pool takes the weights
bootstrap(weights, snapshots, win) == [k \in 0..win-1 |-> weights]

AddPolicy(name_behavior_id) ==
    /\ name_behavior_id \in identities
    /\ policies[name_behavior_id] = NoWeights
    /\ \A n \in Earlier(name_behavior_id) : policies[n] # NoWeights
    /\ LET weights == NewPolicyWeights(name_behavior_id) IN
       /\ policies' = [policies EXCEPT ![name_behavior_id] = weights]
       /\ IF FirstPolicy(learning_behavior_name)
          THEN /\ current_policy_snapshot' = weights
               /\ policy_snapshots' = bootstrap(weights, policy_snapshots, window)
               /\ trainer_added' = Append(trainer_added, name_behavior_id)
               /\ learning_behavior_name' = name_behavior_id
          ELSE UNCHANGED <<current_policy_snapshot, policy_snapshots,
                           trainer_added, learning_behavior_name>>
    /\ UNCHANGED <<configVars, snapshot_counter, last_step, current_elo,
                   policy_elos, current_opponent, queueVars, trainer_step,
                   updates, progressed, ingested, inserted, last_processed>>

\* ------------------------------------------------- publish_policy_queue
\* lines 210-224; super().publish_policy_queue appends to policy_queues.  The
\* caller builds an identity's queues after registering its policy, and
\* publishes each queue once.
PublishPolicyQueue(behavior_id) ==
    /\ policies[behavior_id] # NoWeights
    /\ ~InQueue(policy_queues, behavior_id)
    /\ policy_queues' = Append(policy_queues, behavior_id)
    /\ IF IsLearningQueue(behavior_id, learning_behavior_name)
       THEN internal_policy_queues' = Append(internal_policy_queues,
                [behavior_id |-> behavior_id, items |-> <<>>])
       ELSE UNCHANGED internal_policy_queues
    /\ UNCHANGED <<configVars, policies, ghostVars, trajectory_queues,
                   internal_trajectory_queues, ext_policy, ext_traj, enqueued,
                   subscribed, trainerVars, inserted, last_processed>>

\* -------------------------------------------- subscribe_trajectory_queue
\* subscribe_trajectory_queue, but with super().subscribe_trajectory_queue
\* called before the identity test (the shape of publish_policy_queue)
SubscribeTrajectoryQueue_unconditional(behavior_id) ==
    /\ policies[behavior_id] # NoWeights
    /\ behavior_id \notin subscribed
    /\ subscribed' = subscribed \cup {behavior_id}
    /\ trajectory_queues' = Append(trajectory_queues, behavior_id)
    /\ IF behavior_id = learning_behavior_name
       THEN internal_trajectory_queues' = Append(internal_trajectory_queues,
                [behavior_id |-> behavior_id, items |-> <<>>])
       ELSE UNCHANGED internal_trajectory_queues
    /\ UNCHANGED <<configVars, policies, ghostVars, policy_queues,
                   internal_policy_queues, ext_policy, ext_traj, enqueued,
                   trainerVars, inserted, last_processed>>

\* lines 226-237; super().subscribe_trajectory_queue appends to
\* trajectory_queues
SubscribeTrajectoryQueue(behavior_id) ==
    /\ policies[behavior_id] # NoWeights
    /\ behavior_id \notin subscribed
    /\ subscribed' = subscribed \cup {behavior_id}
    /\ IF IsLearningQueue(behavior_id, learning_behavior_name)
       THEN /\ trajectory_queues' = Append(trajectory_queues, behavior_id)
            /\ internal_trajectory_queues' = Append(internal_trajectory_queues,
                   [behavior_id |-> behavior_id, items |-> <<>>])
       ELSE UNCHANGED <<trajectory_queues, internal_trajectory_queues>>
    /\ UNCHANGED <<configVars, policies, ghostVars, policy_queues,
                   internal_policy_queues, ext_policy, ext_traj, enqueued,
                   trainerVars, inserted, last_processed>>

\* The environment enqueues a trajectory on a subscribed queue.
PutTrajectory(behavior_id, t) ==
    /\ behavior_id \in subscribed
    /\ Events < MaxEvents
    /\ enqueued' = enqueued + 1
    /\ ext_traj' = [ext_traj EXCEPT ![behavior_id] =
                       Append(@, [id |-> enqueued + 1,
                                  done_reached |-> t.done_reached,
                                  max_step_reached |-> t.max_step_reached,
                                  reward |-> t.reward])]
    /\ UNCHANGED <<configVars, policies, ghostVars, policy_queues,
                   internal_policy_queues, trajectory_queues,
                   internal_trajectory_queues, ext_policy,
                   subscribed, trainerVars, inserted, last_processed>>

\* -------------------------------------------------------------- advance
\* The steps the wrapped trainer's counter may grow by in one advance.
StepDeltas == {0, steps_between_snapshots, steps_between_snapshots + 1}

\* self.trainer.advance(), line 128.  The wrapped trainer takes a trajectory
\* from each trajectory queue it subscribed to, may count steps (delta) and
\* may update its policy (update); an updated policy is put on every policy
\* queue published to it.  st holds policies, internal_policy_queues and
\* internal_trajectory_queues.
TrainerAdvance(update, fresh, pol, st) ==
    [policies |-> IF update THEN [st.policies EXCEPT ![pol] = fresh]
                  ELSE st.policies,
     internal_policy_queues |->
        IF update
        THEN [k \in 1..Len(st.internal_policy_queues) |->
                 [st.internal_policy_queues[k] EXCEPT !.items =
                     Append(@, st.internal_policy_queues[k].behavior_id)]]
        ELSE st.internal_policy_queues,
     internal_trajectory_queues |->
        [k \in 1..Len(st.internal_trajectory_queues) |->
            [st.internal_trajectory_queues[k] EXCEPT !.items =
                IF @ = <<>> THEN @ ELSE Tail(@)]],
     ingested |->
        {Head(st.internal_trajectory_queues[k].items) :
            k \in {q \in 1..Len(st.internal_trajectory_queues) :
                      st.internal_trajectory_queues[q].items # <<>>}}]

GhostPositions == {k \in 1..Len(policy_queues) :
                      policy_queues[k] # learning_behavior_name}

\* The random numbers one ghost consumes in swap_snapshots: the uniform draw
\* and, only when it fields a pool snapshot, randint(len(policy_snapshots)).
DrawPairs ==
    {d \in Draws \X (0..window-1) :
        FieldsPoolSnapshot(d[1], current_prob) \/ d[2] = 0}

\* lines 112-145.  (\E x \in {e} names the value of e.)
Advance ==
    \E delta \in StepDeltas, update \in BOOLEAN :
    /\ delta > 0 \/ update => trainer_policy # None /\ Events < MaxEvents
    /\ \E tr \in {relay_trajectories(1, trajectory_queues, current_opponent,
                    [ext_traj |-> ext_traj,
                     internal_trajectory_queues |-> internal_trajectory_queues,
                     current_elo |-> current_elo,
                     policy_elos |-> policy_elos,
                     last_processed |-> <<>>])} :                \* lines 116-125
       \E ta \in {TrainerAdvance(update, Cardinality(Names) + updates + 1,
                    trainer_policy,
                    [policies |-> policies,
                     internal_policy_queues |-> internal_policy_queues,
                     internal_trajectory_queues |->
                         tr.internal_trajectory_queues])} :      \* lines 127-129
       \E rl \in {relay_policies(1, policy_queues, ta.policies,
                    [internal_policy_queues |-> ta.internal_policy_queues,
                     current_policy_snapshot |-> current_policy_snapshot,
                     ext_policy |-> [n \in Names |-> <<>>]])} :  \* lines 131-140
           /\ ext_traj' = tr.ext_traj
           /\ internal_trajectory_queues' = ta.internal_trajectory_queues
           /\ ingested' = ta.ingested
           /\ current_elo' = tr.current_elo
           /\ last_processed' = tr.last_processed
           /\ trainer_step' = trainer_step + delta
           /\ progressed' = IF delta > 0 \/ update THEN progressed + 1
                                                     ELSE progressed
           /\ updates' = IF update THEN updates + 1 ELSE updates
           /\ internal_policy_queues' = rl.internal_policy_queues
           /\ current_policy_snapshot' = rl.current_policy_snapshot
           \* lines 142-145
           /\ IF SnapshotDue(trainer_step + delta, last_step,
                             steps_between_snapshots)
              THEN \E weights \in {SnapshotSource(ta.policies, trainer_policy,
                                       rl.current_policy_snapshot)} :
                   \E saved \in {save_snapshot(weights, policy_snapshots,
                                    tr.policy_elos, snapshot_counter,
                                    tr.current_elo, window)} :
                       /\ policy_snapshots' = saved.policy_snapshots
                       /\ policy_elos' = saved.policy_elos
                       /\ snapshot_counter' = saved.snapshot_counter
                       /\ inserted' = Append(inserted, weights)
                       /\ last_step' = trainer_step + delta
                       /\ \E draws \in [GhostPositions -> DrawPairs] :
                          \E swapped \in {swap_snapshots(1, policy_queues,
                                     learning_behavior_name,
                                     saved.policy_snapshots,
                                     rl.current_policy_snapshot, current_prob,
                                     [st |-> [policies |-> ta.policies,
                                              ext_policy |-> rl.ext_policy,
                                              current_opponent |-> current_opponent],
                                      draws |-> draws])} :
                                 /\ policies' = swapped.policies
                                 /\ ext_policy' = swapped.ext_policy
                                 /\ current_opponent' = swapped.current_opponent
              ELSE /\ policy_elos' = tr.policy_elos
                   /\ policies' = ta.policies
                   /\ ext_policy' = rl.ext_policy
                   /\ UNCHANGED <<policy_snapshots, snapshot_counter, inserted,
                                  last_step, current_opponent>>
    /\ UNCHANGED <<configVars, learning_behavior_name, policy_queues,
                   trajectory_queues, enqueued, subscribed, trainer_added>>

Next ==
    \/ \E n \in Names : AddPolicy(n)
    \/ \E n \in Names : PublishPolicyQueue(n)
    \/ \E n \in Names : SubscribeTrajectoryQueue(n)
    \/ \E n \in Names, t \in Trajectories : PutTrajectory(n, t)
    \/ Advance

Spec == Init /\ [][Next]_vars

\* a learning identity and two ghost identities, with a pool of two slots and
\* both kinds of draw possible
TwoGhostInit ==
    InitWith({"A", "B", "C"},
             {[window |-> 2, current_prob |-> 20, snapshot_per |-> 1]})

\* The two ghosts are alike, so "B" publishes its queue before "C" does; a
\* ghost's trajectory queue is ignored by subscribe_trajectory_queue, so only
\* the learning identity's is subscribed and fed.
TwoGhostNext ==
    \/ \E n \in Names : AddPolicy(n)
    \/ \E n \in Names : /\ n = "C" => InQueue(policy_queues, "B")
                        /\ PublishPolicyQueue(n)
    \/ SubscribeTrajectoryQueue("A")
    \/ \E t \in Trajectories : PutTrajectory("A", t)
    \/ Advance

TwoGhostSpec == TwoGhostInit /\ [][TwoGhostNext]_vars

\* the controller built with parameters out of range
MisconfiguredInit == InitWith({"A", "B"}, BadConfigs)

MisconfiguredSpec == MisconfiguredInit /\ [][Next]_vars

\* advance() is called again and again by the owning loop
FairSpec == Spec /\ WF_vars(Advance)

\* ---------------------------------------------------------------------
\* Properties
\* ---------------------------------------------------------------------
Last(seq) == seq[Len(seq)]

IsPrefix(a, b) == Len(a) <= Len(b) /\ SubSeq(b, 1, Len(a)) = a

Windows == 0..window-1

\* the published queues of ghost identities
PublishedGhosts == {n \in Names : InQueue(policy_queues, n)
                                  /\ n # learning_behavior_name}

\* a relayed trajectory on which _process_trajectory takes its rated branch
Terminal(t) == t.done_reached /\ ~t.max_step_reached
Rated(r) == Terminal(r.trajectory) /\ r.opponent > -1

Processed == {last_processed[k] : k \in 1..Len(last_processed)}

\* C1: the first add_policy call makes its identity the learning identity and
\* is forwarded to the wrapped trainer; every later add_policy call leaves
\* learning_behavior_name, the snapshot pool and the live snapshot as they
\* are and is not forwarded to the wrapped trainer.
C1_LearningIdentityBoundOnce ==
    [][ /\ \A n \in Names :
             (policies[n] = NoWeights /\ policies'[n] # NoWeights) =>
                IF learning_behavior_name = None
                THEN /\ learning_behavior_name' = n
                     /\ trainer_added' = <<n>>
                ELSE /\ learning_behavior_name' = learning_behavior_name
                     /\ policy_snapshots' = policy_snapshots
                     /\ current_policy_snapshot' = current_policy_snapshot
                     /\ trainer_added' = trainer_added
        /\ learning_behavior_name # None =>
              learning_behavior_name' = learning_behavior_name ]_vars

C1_Witness ==
    /\ learning_behavior_name = "A"
    /\ policies["B"] # NoWeights
    /\ trainer_added = <<"A">>

\* C2: whatever the order of the publish_policy_queue calls, a policy taken
\* from the internal relay queue goes to the learning identity's external
\* queue only; a ghost identity's external queue holds nothing but what
\* swap_snapshots put there.
C2_GhostQueueFedOnlyBySwap ==
    \A n \in Names :
        n # learning_behavior_name =>
            \A k \in 1..Len(ext_policy[n]) :
                ext_policy[n][k].by = "swap_snapshots"

\* C3: every trajectory queue registered with the wrapped trainer stands for
\* the learning identity and is paired with the learning identity's external
\* queue, and every trajectory an advance relays was taken from the learning
\* identity's queue: none from a ghost's queue reaches an internal queue.
C3_OnlyLearningTrajectoriesRelayed ==
    /\ Len(trajectory_queues) = Len(internal_trajectory_queues)
    /\ \A k \in 1..Len(internal_trajectory_queues) :
          /\ internal_trajectory_queues[k].behavior_id = learning_behavior_name
          /\ trajectory_queues[k] = learning_behavior_name
    /\ \A r \in Processed :
          /\ r.queue = learning_behavior_name
          /\ r.internal = learning_behavior_name

C3_Witness ==
    /\ "B" \in subscribed
    /\ "B" # learning_behavior_name
    /\ ext_traj["B"] # <<>>
    /\ last_processed # <<>>

\* C4 as claimed: an ended, untruncated trajectory waiting on a subscribed
\* ghost identity's queue is in the end taken by an advance and rated.
C4_GhostTrajectoryRated ==
    \A n \in Names :
        (/\ n \in subscribed
         /\ n # learning_behavior_name
         /\ ext_traj[n] # <<>>
         /\ Terminal(Head(ext_traj[n])))
        ~> (\E r \in Processed : r.queue = n)

\* C4, amended: no advance ever takes a trajectory from a ghost identity's
\* queue, so none is rated: such a queue only grows.
C4_GhostTrajectoryNeverTaken ==
    [][ \A n \in Names :
           n # learning_behavior_name' => IsPrefix(ext_traj[n], ext_traj'[n]) ]_vars

C4_Witness ==
    /\ "B" \in subscribed
    /\ "B" # learning_behavior_name
    /\ ext_traj["B"] # <<>>
    /\ Terminal(Head(ext_traj["B"]))
    /\ current_opponent > -1
    /\ \E r \in Processed : Rated(r)

\* the number of snapshots a step inserts
Inserts == Len(inserted') - Len(inserted)

\* the weights a ghost may be given by a swap pass that runs after the
\* insertion of the same cycle
Fieldable == {policy_snapshots'[x] : x \in Windows} \cup {current_policy_snapshot'}

\* the cadence scenario: window 5, cadence 100, nothing inserted yet
CadenceScenario ==
    /\ window = 5
    /\ steps_between_snapshots = 100
    /\ last_step = 0
    /\ inserted = <<>>

\* C5: a step inserts a snapshot iff it leaves the trainer step more than
\* steps_between_snapshots past last_step; it inserts at most one, last_step
\* becomes the trainer step, and the swap pass of the same cycle runs after
\* the insertion. With cadence 100, last_step 0 and nothing inserted, reaching
\* step 100 inserts nothing and reaching step 101 inserts once and moves the
\* cursor from 0 to 1.
C5_SnapshotCadence ==
    [][ /\ Inserts \in {0, 1}
        /\ Inserts = 1 <=> trainer_step' - last_step > steps_between_snapshots
        /\ Inserts = 0 => last_step' = last_step
        /\ Inserts = 1 =>
              /\ last_step' = trainer_step'
              /\ \A n \in PublishedGhosts :
                    /\ ext_policy'[n] # <<>>
                    /\ Last(ext_policy'[n]).by = "swap_snapshots"
                    /\ policies'[n] \in Fieldable
        /\ CadenceScenario =>
              /\ trainer_step' = 100 => Inserts = 0
              /\ trainer_step' = 101 =>
                    /\ Inserts = 1
                    /\ snapshot_counter = 0
                    /\ snapshot_counter' = 1 ]_vars

C5_Witness ==
    /\ window = 5
    /\ steps_between_snapshots = 100
    /\ trainer_step = 101
    /\ last_step = 101
    /\ Len(inserted) = 1
    /\ snapshot_counter = 1
    /\ PublishedGhosts # {}

\* C6 as claimed: the weights a cadence insertion writes are those of
\* current_policy_snapshot, the weights last captured by the controller.
C6_InsertsCapturedSnapshot ==
    [][ Inserts = 1 => Last(inserted') = current_policy_snapshot' ]_vars

\* C6, amended: the weights a cadence insertion writes are the present
\* weights of the wrapped trainer's policy, the learning policy, whether or
\* not the controller has captured them.
C6_InsertsTrainerPolicyWeights ==
    [][ Inserts = 1 =>
          /\ Last(inserted') = policies'[learning_behavior_name]
          /\ policy_snapshots'[snapshot_counter] = policies'[learning_behavior_name]
      ]_vars

C6_Witness ==
    /\ inserted # <<>>
    /\ last_step = trainer_step
    /\ Last(inserted) = policies[learning_behavior_name]
    /\ Last(inserted) # current_policy_snapshot

\* C7: a rated trajectory against pool opponent i leaves
\* current_elo + policy_elos[i] as it was and every other policy_elos[j]
\* as it was.
C7_ZeroSumTransfer ==
    \A r \in Processed :
        Rated(r) =>
            /\ r.opponent \in Windows
            /\ r.after.current_elo + r.after.policy_elos[r.opponent]
                  = r.before.current_elo + r.before.policy_elos[r.opponent]
            /\ \A j \in Windows :
                  j # r.opponent =>
                      r.after.policy_elos[j] = r.before.policy_elos[j]

C7_Witness ==
    \E r \in Processed :
        /\ Rated(r)
        /\ r.opponent = 1
        /\ r.after.current_elo # r.before.current_elo

\* C8: a trajectory that was cut by the step limit, or did not end, or was
\* played while the opponent is the live policy (-1), changes no rating,
\* whatever the sign of its final reward.
C8_NoRatingChange ==
    \A r \in Processed :
        (\/ r.trajectory.max_step_reached
         \/ ~r.trajectory.done_reached
         \/ r.opponent = -1)
        => r.after = r.before

C8_Witness ==
    /\ \E r \in Processed :
          /\ r.opponent = -1
          /\ Terminal(r.trajectory)
          /\ r.trajectory.reward < 0
    /\ current_prob = 100

\* C9: on a rated trajectory a final reward >= 0 (0 included) is a win:
\* current_elo rises and the opponent's rating falls; a negative one is a
\* loss: current_elo falls and the opponent's rating rises. Against opponent
\* 2 with both ratings at 1200, a loss keeps their sum at 2400.
C9_OutcomeClassification ==
    \A r \in Processed :
        Rated(r) =>
            LET i == r.opponent
            IN  /\ r.trajectory.reward >= 0 =>
                      /\ r.after.current_elo > r.before.current_elo
                      /\ r.after.policy_elos[i] < r.before.policy_elos[i]
                /\ r.trajectory.reward < 0 =>
                      /\ r.after.current_elo < r.before.current_elo
                      /\ r.after.policy_elos[i] > r.before.policy_elos[i]
                /\ (/\ i = 2
                    /\ r.trajectory.reward < 0
                    /\ r.before.current_elo = initial_elo
                    /\ r.before.policy_elos[2] = initial_elo) =>
                      r.after.current_elo + r.after.policy_elos[2]
                          = 2400 * EloScale

C9_Witness ==
    \E r \in Processed :
        /\ Rated(r)
        /\ r.opponent = 2
        /\ r.trajectory.reward < 0
        /\ r.before.current_elo = initial_elo
        /\ r.before.policy_elos[2] = initial_elo
        /\ r.after.current_elo < initial_elo
        /\ r.after.policy_elos[2] > initial_elo

\* the ratings as save_snapshot of this cycle finds them: after the
\* trajectories of the cycle were processed
RatingsAtInsertion ==
    IF last_processed' = <<>> THEN policy_elos
    ELSE Last(last_processed').after.policy_elos

\* C10: an insertion writes the weights to policy_snapshots[cursor], sets
\* policy_elos[cursor] to current_elo, moves the cursor to
\* (cursor + 1) mod window and touches no other slot or rating; so after
\* window + 1 insertions of distinct bundles slot 0 holds the last of them
\* and slots 1..window-1 hold the 2nd..window-th.
C10_FifoRingInLockstep ==
    /\ [][ Inserts = 1 =>
             /\ policy_snapshots' = [policy_snapshots EXCEPT
                                        ![snapshot_counter] = Last(inserted')]
             /\ policy_elos' = [RatingsAtInsertion EXCEPT
                                        ![snapshot_counter] = current_elo']
             /\ snapshot_counter' = (snapshot_counter + 1) % window ]_vars
    /\ [](Len(inserted) = window + 1 =>
             /\ policy_snapshots[0] = inserted[window + 1]
             /\ \A k \in 1..window-1 : policy_snapshots[k] = inserted[k + 1])

C10_Witness ==
    /\ Len(inserted) = window + 1
    /\ \A i, j \in 1..Len(inserted) : i # j => inserted[i] # inserted[j]
    /\ policy_snapshots[0] = inserted[window + 1]
    /\ policy_elos[0] = current_elo

\* the weights the learning policy was registered with
RegisteredWeights == NewPolicyWeights(learning_behavior_name)

BeforeFirstInsertion == learning_behavior_name # None /\ inserted = <<>>

\* C11 as claimed: from the first registration, with weights w, until the
\* first pool insertion every slot of the pool holds w and
\* current_policy_snapshot is w.
C11_BootstrapPoolAndLive ==
    BeforeFirstInsertion =>
        /\ \A x \in Windows : policy_snapshots[x] = RegisteredWeights
        /\ current_policy_snapshot = RegisteredWeights

\* C11, amended: from the first registration, with weights w, until the
\* first pool insertion every slot of the pool holds w, so any sampled index
\* gives w; current_policy_snapshot is w as long as the wrapped trainer has
\* not updated its policy, and whatever advance last took from the internal
\* policy queue afterwards.
C11_BootstrapPool ==
    BeforeFirstInsertion =>
        /\ \A x \in Windows : policy_snapshots[x] = RegisteredWeights
        /\ updates = 0 => current_policy_snapshot = RegisteredWeights

C11_Witness ==
    /\ BeforeFirstInsertion
    /\ window = 5
    /\ \A x \in Windows : policy_snapshots[x] = RegisteredWeights
    /\ current_policy_snapshot # RegisteredWeights

\* what swap_snapshots put on the queues in the last advance
Swapped ==
    UNION {{[name |-> n, item |-> ext_policy[n][k]] :
               k \in 1..Len(ext_policy[n])} : n \in Names}

SwapPuts == {p \in Swapped : p.item.by = "swap_snapshots"}

\* C12: for each ghost identity and each draw u the pass fields a pool
\* snapshot (x is a slot, the ghost has that slot's weights) iff
\* u < 1 - current_prob, and else the live snapshot (x = -1, the ghost has
\* the weights of current_policy_snapshot); so with current_prob 1 every
\* ghost gets the live snapshot and with current_prob 0 none does.
C12_PoolOrLiveByDraw ==
    \A p \in SwapPuts :
        /\ p.name # learning_behavior_name
        /\ p.item.x \in Windows <=> p.item.u < 100 - current_prob
        /\ p.item.x = -1 <=> ~(p.item.u < 100 - current_prob)
        /\ policies[p.name] = IF p.item.x = -1 THEN current_policy_snapshot
                              ELSE policy_snapshots[p.item.x]
        /\ current_prob = 100 => p.item.x = -1
        /\ current_prob = 0 => p.item.x # -1

C12_Witness ==
    /\ current_prob = 20
    /\ \E p \in SwapPuts :
          /\ p.item.u = 80
          /\ p.item.x = -1
          /\ policies[p.name] = current_policy_snapshot
          /\ policies[p.name] # policy_snapshots[0]

\* C13: what an advance relays from an external trajectory queue is the
\* oldest trajectory waiting there, which leaves that queue, goes to the
\* internal queue paired with it (of the same identity) and is what the
\* wrapped trainer takes and what is rated; an external queue loses nothing
\* else, and a cycle relays at most one trajectory per pair.  So the
\* trajectories forwarded are, in order and without repeats, a prefix of those
\* enqueued.
C13_RelayInOrder ==
    /\ [][ /\ last_processed' # last_processed =>
                \A r \in Processed' :
                    /\ ext_traj[r.queue] # <<>>
                    /\ r.trajectory = Head(ext_traj[r.queue])
                    /\ ext_traj'[r.queue] = Tail(ext_traj[r.queue])
                    /\ r.internal = r.queue
           /\ \A n \in Names :
                 \/ IsPrefix(ext_traj[n], ext_traj'[n])
                 \/ \E r \in Processed' :
                       /\ r.queue = n
                       /\ last_processed' # last_processed
           /\ Len(last_processed') <= Len(trajectory_queues)
           /\ \A i, j \in 1..Len(last_processed') :
                 i # j => last_processed'[i].queue # last_processed'[j].queue
         ]_vars
    /\ [](ingested = {r.trajectory : r \in Processed})

C13_Witness ==
    /\ Len(ext_traj["A"]) = 1
    /\ ext_traj["A"][1].id = 2
    /\ Len(last_processed) = 1
    /\ last_processed[1].trajectory.id = 1
    /\ last_processed[1].queue = "A"
    /\ ingested = {last_processed[1].trajectory}

\* trajectory i waits on the learning identity's subscribed queue
Waiting(i) ==
    /\ learning_behavior_name # None
    /\ InQueue(trajectory_queues, learning_behavior_name)
    /\ \E k \in 1..Len(ext_traj[learning_behavior_name]) :
          ext_traj[learning_behavior_name][k].id = i

\* trajectory i was forwarded to the wrapped trainer by the last advance
Forwarded(i) ==
    \E r \in Processed :
        /\ r.trajectory.id = i
        /\ r.trajectory \in ingested

\* C14: with advance called again and again, every trajectory waiting on the
\* learning identity's subscribed queue is in the end forwarded to the
\* wrapped trainer: each advance forwards the oldest one waiting; and
\* advance can always run, whether its queues are empty or not.
C14_EveryTrajectoryForwarded ==
    /\ \A i \in 1..MaxEvents : Waiting(i) ~> Forwarded(i)
    /\ [][Advance => \A i \in 1..MaxEvents :
                        (/\ Waiting(i)
                         /\ Head(ext_traj[learning_behavior_name]).id = i)
                        => Forwarded(i)']_vars
    /\ [](ENABLED Advance)

C14_Witness ==
    /\ Forwarded(2)
    /\ enqueued = 2
    /\ ext_traj[learning_behavior_name] = <<>>
    /\ ext_policy[learning_behavior_name] = <<>>
    /\ internal_policy_queues # <<>>

Misconfigured ==
    \/ window <= 0
    \/ current_prob < 0
    \/ current_prob > 100
    \/ steps_between_snapshots <= 0

\* C15: a controller built with window <= 0, current_prob outside [0, 1] or
\* a cadence <= 0 never gets past construction: no policy is registered, no
\* advance moves the trainer, nothing is inserted or swapped.
C15_MisconfigurationFailsFast ==
    Misconfigured =>
        /\ learning_behavior_name = None
        /\ \A n \in Names : policies[n] = NoWeights
        /\ trainer_step = 0
        /\ inserted = <<>>
        /\ \A n \in Names : ext_policy[n] = <<>>

\* the ghost whose queue comes last in policy_queues
LastGhost ==
    policy_queues[CHOOSE k \in GhostPositions :
                      \A j \in GhostPositions : j <= k]

\* the tag of what the last swap pass put on the queue of ghost n
TagOf(n) == Last(ext_policy[n]).x

\* C16: after a swap pass over at least one ghost queue current_opponent is
\* the tag (a pool slot, or -1) chosen for the ghost whose queue comes last
\* in policy_queues, whatever was chosen for the ghosts before it; a pass
\* over no ghost queue leaves current_opponent as it was.
C16_CurrentOpponentIsLastTag ==
    [][ Inserts = 1 =>
          IF GhostPositions # {}
          THEN /\ Last(ext_policy'[LastGhost]).by = "swap_snapshots"
               /\ current_opponent' = TagOf(LastGhost)'
          ELSE current_opponent' = current_opponent ]_vars

C16_Witness ==
    /\ policy_queues = <<"B", "A", "C">>
    /\ inserted # <<>>
    /\ ext_policy["B"] # <<>>
    /\ ext_policy["C"] # <<>>
    /\ TagOf("B") = 1
    /\ TagOf("C") = -1
    /\ current_opponent = -1

\* what swap_snapshots put on the queue of n in the last advance
SwapPutsOn(n) == {p \in SwapPuts : p.name = n}

\* registered identities other than the learning one with no published queue
UnpublishedGhosts ==
    {n \in Names : /\ policies[n] # NoWeights
                   /\ n # learning_behavior_name
                   /\ ~InQueue(policy_queues, n)}

\* C17: a swap pass leaves the learning policy's weights alone and puts
\* nothing on the learning identity's queue; each published ghost gets the
\* weights of the snapshot chosen for it and one put, of its own policy, on
\* its own queue; the pool, the ratings and the cursor stay as save_snapshot
\* left them.
C17_SwapPassFrame ==
    [][ Inserts = 1 =>
          /\ SwapPutsOn(learning_behavior_name)' = {}
          /\ policies'[learning_behavior_name] = Last(inserted')
          /\ \A n \in PublishedGhosts :
                /\ Cardinality(SwapPutsOn(n)') = 1
                /\ \A p \in SwapPutsOn(n)' :
                      /\ p.item.policy = n
                      /\ policies'[n] =
                            IF p.item.x = -1 THEN current_policy_snapshot'
                            ELSE policy_snapshots'[p.item.x]
          /\ \A n \in UnpublishedGhosts :
                /\ policies'[n] = policies[n]
                /\ ext_policy'[n] = <<>>
          /\ policy_snapshots' = [policy_snapshots EXCEPT
                                     ![snapshot_counter] = Last(inserted')]
          /\ policy_elos' = [RatingsAtInsertion EXCEPT
                                     ![snapshot_counter] = current_elo']
          /\ snapshot_counter' = (snapshot_counter + 1) % window ]_vars

C17_Witness ==
    /\ policy_queues = <<"A", "B", "C">>
    /\ inserted # <<>>
    /\ last_step = trainer_step
    /\ Len(ext_policy["A"]) = 1
    /\ ext_policy["A"][1].by = "advance"
    /\ policies["A"] = Last(inserted)
    /\ Cardinality(SwapPutsOn("B")) = 1
    /\ Cardinality(SwapPutsOn("C")) = 1
    /\ policies["B"] # policies["C"]

\* C18: policy_snapshots and policy_elos have exactly window entries each
\* and snapshot_counter is one of 0..window-1, in every reachable state.
C18_RingShape ==
    /\ window > 0
    /\ DOMAIN policy_snapshots = 0..window-1
    /\ DOMAIN policy_elos = 0..window-1
    /\ snapshot_counter \in 0..window-1

C18_Witness ==
    /\ window = 2
    /\ Len(inserted) = 2
    /\ snapshot_counter = 0
    /\ policy_snapshots[1] = inserted[2]
    /\ policy_snapshots[0] = inserted[1]

\* C19: as long as no swap pass has run (nothing was inserted yet), no
\* opponent is active: a trajectory processed then, ended and untruncated or
\* not, changes no rating, and all ratings are still the initial one.
C19_NoRatingBeforeFirstSwap ==
    inserted = <<>> =>
        /\ \A r \in Processed : r.after = r.before
        /\ current_elo = initial_elo
        /\ \A x \in Windows : policy_elos[x] = initial_elo

\* the registered identities other than the learning one
RegisteredGhosts ==
    {n \in Names : policies[n] # NoWeights /\ n # learning_behavior_name}

\* A swap pass has given ghost n its weights: a ghost's policy leaves the
\* weights it was registered with only through set_weights in swap_snapshots
\* (line 206), and no two bundles of different origin are the same number.
SwappedIn(n) == policies[n] # NewPolicyWeights(n)

\* C20: with one ghost identity registered and published, between any two
\* advance calls after the first swap pass (a pass runs with every
\* insertion), current_opponent = x >= 0 means that the ghost's policy has
\* the weights of policy_snapshots[x].
C20_RatedSlotIsFielded ==
    \A n \in Names :
        (/\ RegisteredGhosts = {n}
         /\ PublishedGhosts = {n}
         /\ inserted # <<>>
         /\ current_opponent >= 0)
        => policies[n] = policy_snapshots[current_opponent]

\* What does hold with one ghost: the same, once a swap pass has run over the
\* ghost's queue; an insertion that overwrites slot x is followed by a swap
\* in the same call.
RatedSlotIsFieldedOnceSwapped ==
    \A n \in Names :
        (/\ RegisteredGhosts = {n}
         /\ PublishedGhosts = {n}
         /\ SwappedIn(n)
         /\ current_opponent >= 0)
        => policies[n] = policy_snapshots[current_opponent]

\* With two ghosts swapped in, one of them may have other weights than those
\* of the slot current_opponent names.
TwoGhostsMismatch ==
    /\ PublishedGhosts = {"B", "C"}
    /\ SwappedIn("B")
    /\ SwappedIn("C")
    /\ current_opponent >= 0
    /\ \E n \in PublishedGhosts :
          policies[n] # policy_snapshots[current_opponent]

TypeOK ==
    /\ snapshot_counter \in 0..window-1
    /\ \A k \in 1..Len(internal_trajectory_queues) :
          internal_trajectory_queues[k].items = <<>>

=============================================================================
